---- MODULE Spec2Model ----
(***************************************************************************)
(* State-machine model of esp_flash_tool.py: the Tk controller (the GUI    *)
(* thread's handlers, each one atomic step of the event loop), the Tool    *)
(* Runner thread (run_esptool_in_process with its two line-buffering       *)
(* sinks) and the serial-monitor reader thread (start_monitor.reader),     *)
(* communicating through the queue log_q.                                  *)
(*                                                                         *)
(* The log view (self.txt) is write-only for the program: _log appends to   *)
(* it and nothing reads it back, so the model carries no copy of it; the   *)
(* text a poll tick appends is OutChunks of the drained queue.             *)
(*                                                                         *)
(* Text is a sequence of characters; a fixed string of the program (a       *)
(* banner, an error line, the time stamp) is one token of that sequence.   *)
(*                                                                         *)
(* The project folder and the port are selected before a behaviour begins  *)
(* (Init draws them); browse_folder is not a step, and refresh_ports is a   *)
(* step of SpecPorts only.                                                  *)
(*                                                                         *)
(* Spec is the whole program: the user's clicks, the poll tick and the     *)
(* steps of both kinds of thread, interleaved. SpecTool is one run of the  *)
(* Tool Runner on a tool that writes chunks with line ends to both         *)
(* streams, with the poll tick. SpecMon is one monitor session on a device  *)
(* that sends chunks with line ends, with the Timestamp check button, the  *)
(* monitor button and the poll tick. SpecStop is SpecMon on a device that  *)
(* sends one partial line, with the reader thread and the poll tick        *)
(* scheduled fairly. SpecTs is SpecMon with the display mode left          *)
(* timestamped. SpecPorts is the Refresh button on a machine whose         *)
(* serial ports come and go. SpecFlash is the Flash button on folders with *)
(* and without flash_args, with the monitor button, the poll tick and the  *)
(* threads.                                                                *)
(***************************************************************************)
EXTENDS Integers, Sequences, FiniteSets, TLC

\* ------------------------------------------------------------------ bounds
\* thread slots: how many Tool Runner threads, and how many reader threads, can
\* be alive at once in the model (a slot is reused once its thread has ended)
MaxToolThreads == 2
MaxMonThreads == 2
\* how many write calls the tool makes in the specification of one run
MaxToolWrites == 2
\* how many chunks the device sends in the specification of one monitor session
MaxReads == 2
\* how many messages can pile up in log_q before the next poll tick
MaxQueue == 3
\* how many serial ports the machine has at once in SpecPorts
MaxPorts == 4

\* ------------------------------------------------------------------- text
LF == "\n"
CR == "\r"

RECURSIVE Replace1(_, _, _)
\* str.replace(c, by) for a single character c; by is a text (possibly empty)
Replace1(s, c, by) ==
    IF s = << >> THEN << >>
    ELSE (IF Head(s) = c THEN by ELSE <<Head(s)>>) \o Replace1(Tail(s), c, by)

RECURSIVE ReplaceCRLF(_)
\* str.replace("\r\n", "\n"): left-to-right, non-overlapping
ReplaceCRLF(s) ==
    IF s = << >> THEN << >>
    ELSE IF Len(s) >= 2 /\ s[1] = CR /\ s[2] = LF
         THEN <<LF>> \o ReplaceCRLF(SubSeq(s, 3, Len(s)))
         ELSE <<Head(s)>> \o ReplaceCRLF(Tail(s))

Contains(s, c) == \E k \in 1..Len(s) : s[k] = c

\* index of the first occurrence of c in s (s contains c)
FirstIdx(s, c) == CHOOSE k \in 1..Len(s) : s[k] = c /\ \A j \in 1..(k - 1) : s[j] # c

\* s.split(c, 1) when c occurs in s: <<before, after>>
Split1(s, c) == <<SubSeq(s, 1, FirstIdx(s, c) - 1), SubSeq(s, FirstIdx(s, c) + 1, Len(s))>>

Msg(kind, text) == [kind |-> kind, text |-> text]

\* ------------------------------------------- LineBufferedQueueWriter
\* The "while '\n' in self._buf" loop of write: the complete lines taken
\* from buf, in order, and the remainder left in the accumulator.
RECURSIVE EmitLines(_)
EmitLines(buf) ==
    IF Contains(buf, LF)
    THEN LET parts == Split1(buf, LF)
             rest == EmitLines(parts[2])
         IN  [lines |-> <<parts[1] \o <<LF>>>> \o rest.lines, buf |-> rest.buf]
    ELSE [lines |-> << >>, buf |-> buf]

\* A sink that buffers what it is given as it is (carriage returns kept).
SinkWriteRaw(buf, s) ==
    IF s = << >> THEN [lines |-> << >>, buf |-> buf]
    ELSE EmitLines(buf \o s)

\* write(s) on a sink whose accumulator is buf: the new accumulator and the
\* payloads put on the queue, in order.
SinkWrite(buf, s) ==
    IF s = << >> THEN [lines |-> << >>, buf |-> buf]
    ELSE EmitLines(buf \o Replace1(s, CR, <<LF>>))

\* flush() on a sink whose accumulator is buf
SinkFlush(buf) ==
    IF buf # << >> THEN [lines |-> <<buf>>, buf |-> << >>]
    ELSE [lines |-> << >>, buf |-> buf]

\* ------------------------------------------------------------ environment
\* Directories the user can select, as path components.
Dirs == {<<"home">>, <<"proj">>}

\* The regular files named flash_args that exist on disk: the project proj
\* has one in its build folder, the folder both has one itself and one in its
\* build folder.
Files ==
    {<<"proj", "build", "flash_args">>,
     <<"both", "flash_args">>, <<"both", "build", "flash_args">>}

\* The folders the user can browse to in SpecFlash: one without flash_args, a
\* project root, its build folder, and a folder where both candidates exist.
FlashDirs == {<<"home">>, <<"proj">>, <<"proj", "build">>, <<"both">>}

Ports == {"COM3"}

\* The device identifiers list_ports.comports() can report in SpecPorts.
PortNames == {"COM1", "COM2", "COM10", "COM10000", "com3", "COMX", "ttyUSB0"}

\* the characters of a device identifier
Spelling ==
    [n \in PortNames \cup Ports |->
        CASE n = "COM1" -> <<"C", "O", "M", "1">>
          [] n = "COM2" -> <<"C", "O", "M", "2">>
          [] n = "COM3" -> <<"C", "O", "M", "3">>
          [] n = "COM10" -> <<"C", "O", "M", "1", "0">>
          [] n = "COM10000" -> <<"C", "O", "M", "1", "0", "0", "0", "0">>
          [] n = "com3" -> <<"c", "o", "m", "3">>
          [] n = "COMX" -> <<"C", "O", "M", "X">>
          [] n = "ttyUSB0" -> <<"t", "t", "y", "U", "S", "B", "0">>]

\* In the specification of the whole program the tool makes one write call,
\* of a partial line, and the device sends one chunk.
MainToolScript == <<[to |-> "OUT", s |-> <<"a">>]>>
MainRx == <<(<<"x">>)>>

\* e.code of a SystemExit raised by the tool: None, an int, or a str.
CodeNone == [ty |-> "none", v |-> 0]
CodeInt(n) == [ty |-> "int", v |-> n]
CodeStr == [ty |-> "str", v |-> 0]
ExitCodes == {CodeNone, CodeInt(0), CodeInt(1), CodeStr}

\* How the tool's entry point terminates.
Outcomes ==
    {[t |-> "return", code |-> CodeNone], [t |-> "exception", code |-> CodeNone],
     [t |-> "base_exception", code |-> CodeNone]}
    \cup {[t |-> "exit", code |-> c] : c \in ExitCodes}

ToolIds == 1..MaxToolThreads
MonIds == 1..MaxMonThreads

VARIABLES
    \* process-wide state
    cwd, sys_argv, sys_stdout, sys_stderr,
    \* EspFlashGUI fields
    log_q, worker, mon_thread, mon_stop_evt, mon_ser, mon_running,
    var_mon_timestamp, mon_line_buf, var_path, port, var_status,
    \* the values of the port combobox
    port_values,
    \* widgets
    btn_flash, btn_erase, btn_mac, btn_monitor,
    cmb_port, cmb_chip, cmb_baud, cmb_mon_baud, msgbox,
    \* threads: Tool Runner threads and monitor reader threads, by creation order
    tr, mon,
    \* environment: what the tool will still write, what the device will still
    \* send, the devices list_ports.comports() enumerates
    tool_script, rx, comports

vars == <<cwd, sys_argv, sys_stdout, sys_stderr,
          log_q, worker, mon_thread, mon_stop_evt, mon_ser, mon_running,
          var_mon_timestamp, mon_line_buf, var_path, port, var_status,
          btn_flash, btn_erase, btn_mac, btn_monitor,
          cmb_port, cmb_chip, cmb_baud, cmb_mon_baud, msgbox,
          tr, mon, tool_script, rx, port_values, comports>>

procVars == <<cwd, sys_argv, sys_stdout, sys_stderr>>
monVars == <<mon_thread, mon_stop_evt, mon_ser, mon_running, mon_line_buf, mon>>
widgetVars == <<btn_flash, btn_erase, btn_mac, btn_monitor,
                cmb_port, cmb_chip, cmb_baud, cmb_mon_baud>>
portVars == <<port, port_values, comports>>
selVars == <<var_mon_timestamp, var_path, portVars>>
envVars == <<tool_script, rx>>

\* A message as a thread records it in its own history `sent`: by is the object
\* that put it (qout, qerr, or the thread's own code), via how (a sink's write
\* or flush, or a direct put).
H(by, via, kind, text) == [by |-> by, via |-> via, kind |-> kind, text |-> text]

HLines(by, via, kind, lines) == [k \in 1..Len(lines) |-> H(by, via, kind, lines[k])]

\* log_q.put of each message of hs, in order. The queue is unbounded; the model
\* has the poll tick, which runs every 120 ms, come first whenever the messages
\* would pile up beyond MaxQueue.
Put(hs) ==
    /\ log_q = << >> \/ Len(log_q) + Len(hs) <= MaxQueue
    /\ log_q' = log_q \o [k \in 1..Len(hs) |-> Msg(hs[k].kind, hs[k].text)]

\* ---------------------------------------------------------- Tool Runner
\* A Tool Runner thread: its position, the arguments and locals of
\* run_esptool_in_process, the two sinks' accumulators; and, for the record,
\* what was written to each sink, how the tool ended (the exception e of the
\* except clauses, kept until the finally clause has run), the messages the run
\* has put, and the reader thread that was streaming when the run was started.
NoThread ==
    [pc |-> "none", argv |-> << >>, cwd |-> << >>, old_argv |-> << >>,
     old_cwd |-> << >>, old_out |-> "", old_err |-> "", qout |-> << >>,
     qerr |-> << >>, wrote |-> [OUT |-> << >>, ERR |-> << >>],
     end |-> [t |-> "none", code |-> CodeNone], sent |-> << >>, preempted |-> 0]

ToolAlive(i) == tr[i].pc \in {"start", "tool", "finally", "exit"}

\* threading.Thread.is_alive() of self.worker
WorkerAlive == worker # 0 /\ ToolAlive(worker)

\* f"\n[esptool exited with code {code}]\n"
ExitText(code) == <<"[esptool exited with code]", ToString(code)>>

\* f"\n[Exception] {e}\n"
ExceptionText == <<"[Exception] e">>

\* code = e.code if isinstance(e.code, int) else 0
ExitCodeOf(c) == IF c.ty = "int" THEN c.v ELSE 0

\* lines 121-127: what the except clauses put for the way the tool ended
ExceptPuts(o) ==
    IF o.t = "exit" /\ ExitCodeOf(o.code) # 0
    THEN <<H("run", "put", "ERR", ExitText(ExitCodeOf(o.code)))>>
    ELSE IF o.t \in {"exception", "chdir_failed"}
    THEN <<H("run", "put", "ERR", ExceptionText)>>
    ELSE << >>

\* lines 108-118: save argv and cwd, build the sinks, chdir, set argv, redirect.
\* os.chdir raises when the directory cannot be entered (ok = FALSE).
tr_begin(i) ==
    /\ tr[i].pc = "start"
    /\ \E ok \in BOOLEAN :
         LET saved == [tr[i] EXCEPT !.old_argv = sys_argv, !.old_cwd = cwd,
                                    !.old_out = sys_stdout, !.old_err = sys_stderr]
             failed == [t |-> "chdir_failed", code |-> CodeNone]
         IN  IF ok
             THEN /\ cwd' = tr[i].cwd
                  /\ sys_argv' = tr[i].argv
                  /\ sys_stdout' = <<"qout", i>>
                  /\ sys_stderr' = <<"qerr", i>>
                  /\ tr' = [tr EXCEPT ![i] = [saved EXCEPT !.pc = "tool"]]
                  /\ UNCHANGED log_q
             ELSE /\ tr' = [tr EXCEPT ![i] = [saved EXCEPT !.pc = "finally", !.end = failed,
                                                           !.sent = @ \o ExceptPuts(failed)]]
                  /\ Put(ExceptPuts(failed))
                  /\ UNCHANGED procVars
    /\ UNCHANGED <<worker, monVars, widgetVars, selVars, envVars, var_status>>
    /\ msgbox' = ""

\* line 119, one write call of the tool on the redirected stdout or stderr
tr_write(i) ==
    /\ tr[i].pc = "tool"
    /\ tool_script # << >>
    /\ LET w == Head(tool_script)
           buf == IF w.to = "OUT" THEN tr[i].qout ELSE tr[i].qerr
           r == SinkWrite(buf, w.s)
           hs == HLines(IF w.to = "OUT" THEN "qout" ELSE "qerr", "write", w.to, r.lines)
       IN  /\ Put(hs)
           /\ tr' = [tr EXCEPT ![i].qout = IF w.to = "OUT" THEN r.buf ELSE @,
                               ![i].qerr = IF w.to = "ERR" THEN r.buf ELSE @,
                               ![i].wrote[w.to] = @ \o w.s,
                               ![i].sent = @ \o hs]
    /\ tool_script' = Tail(tool_script)
    /\ UNCHANGED <<procVars, worker, monVars, widgetVars, selVars, rx, var_status>>
    /\ msgbox' = ""

\* lines 118-127: the tool's entry point terminates; the redirection ends; the
\* except clauses run.
tr_end(i) ==
    /\ tr[i].pc = "tool"
    /\ \E o \in Outcomes :
         /\ tr' = [tr EXCEPT ![i].pc = "finally", ![i].end = o,
                             ![i].sent = @ \o ExceptPuts(o)]
         /\ Put(ExceptPuts(o))
    /\ sys_stdout' = tr[i].old_out
    /\ sys_stderr' = tr[i].old_err
    /\ UNCHANGED <<cwd, sys_argv, worker, monVars, widgetVars, selVars, envVars,
                   var_status>>
    /\ msgbox' = ""

\* A finally clause that posts DONE before it flushes the sinks.
FinallyPutsDoneFirst(qout, qerr) ==
    <<H("run", "put", "DONE", << >>)>>
    \o HLines("qout", "flush", "OUT", SinkFlush(qout).lines)
    \o HLines("qerr", "flush", "ERR", SinkFlush(qerr).lines)

\* lines 129-138: what the finally clause puts: both flushes, then DONE
FinallyPuts(qout, qerr) ==
    HLines("qout", "flush", "OUT", SinkFlush(qout).lines)
    \o HLines("qerr", "flush", "ERR", SinkFlush(qerr).lines)
    \o <<H("run", "put", "DONE", << >>)>>

\* A finally clause that leaves the argument vector and the directory as the
\* run set them.
RestoreNothing(i) == UNCHANGED <<sys_argv, cwd>>

\* lines 136-137: sys.argv = old_argv; os.chdir(old_cwd). The directory the
\* process was in when the run began is taken to exist still.
Restore(i) ==
    /\ sys_argv' = tr[i].old_argv
    /\ cwd' = tr[i].old_cwd

\* lines 129-138: flush both sinks, restore argv and cwd, post DONE
tr_finally(i) ==
    /\ tr[i].pc = "finally"
    /\ Put(FinallyPuts(tr[i].qout, tr[i].qerr))
    /\ tr' = [tr EXCEPT ![i].pc = "exit",
                        ![i].qout = SinkFlush(@).buf, ![i].qerr = SinkFlush(@).buf,
                        ![i].end = NoThread.end,
                        ![i].sent = @ \o FinallyPuts(tr[i].qout, tr[i].qerr)]
    /\ Restore(i)
    /\ UNCHANGED <<sys_stdout, sys_stderr, worker, monVars, widgetVars, selVars,
                   envVars, var_status>>
    /\ msgbox' = ""

\* the thread's target function returns: is_alive() becomes false and the
\* call's locals are gone
tr_exit(i) ==
    /\ tr[i].pc = "exit"
    /\ tr' = [tr EXCEPT ![i] = [NoThread EXCEPT !.pc = "dead"]]
    /\ UNCHANGED <<procVars, log_q, worker, monVars, widgetVars, selVars, envVars,
                   var_status>>
    /\ msgbox' = ""

\* ------------------------------------------------- serial monitor reader
\* A reader thread: its position, the port and baud it captured, and, for the
\* record, the messages it has put and the text it has read from the device.
NoReader == [pc |-> "none", port |-> "", baud |-> 0, sent |-> << >>, got |-> << >>]

MonAlive(m) == mon[m].pc \in {"open", "loop", "read", "finally", "banner", "exit"}

\* threading.Thread.is_alive() of self.mon_thread
MonThreadAlive == mon_thread # 0 /\ MonAlive(mon_thread)

\* _ts_prefix(): the wall-clock stamp, one token
TsPrefix == <<"[ts] ">>

StartBanner == <<"=== SERIAL MONITOR STARTED ===">>
StopBanner == <<"=== SERIAL MONITOR STOPPED ===">>
OpenFailText == <<"[Failed to open serial port] e">>
SerialExceptionText == <<"[SerialException] e">>
MonitorExceptionText == <<"[Monitor Exception] e">>

\* A raw mode that collapses CRLF and keeps the remaining carriage returns.
RawTextKeepCR(chunk) == ReplaceCRLF(chunk)

\* lines 440, 446: raw mode normalisation of one decoded chunk
RawText(chunk) == Replace1(ReplaceCRLF(chunk), CR, << >>)

\* A timestamped mode that drops the remaining carriage returns.
TsTextDropCR(chunk) == Replace1(ReplaceCRLF(chunk), CR, << >>)

\* lines 440, 451: timestamp mode normalisation of one decoded chunk
TsText(chunk) == Replace1(ReplaceCRLF(chunk), CR, <<LF>>)

\* lines 454-465: the payloads put while the buffer holds a newline, and the
\* remainder
RECURSIVE TsLines(_)
TsLines(buf) ==
    IF Contains(buf, LF)
    THEN LET parts == Split1(buf, LF)
             line == parts[1]
             rest == TsLines(parts[2])
             out == IF line = << >> /\ parts[2] = << >> THEN << >>
                    ELSE IF line = << >> THEN <<(<<LF>>)>>
                    ELSE <<TsPrefix \o line \o <<LF>>>>
         IN  [lines |-> out \o rest.lines, buf |-> rest.buf]
    ELSE [lines |-> << >>, buf |-> buf]

\* the reader m puts hs and moves to pc
MonPut(m, hs, pc) ==
    /\ Put(hs)
    /\ mon' = [mon EXCEPT ![m].pc = pc, ![m].sent = @ \o hs]

\* A reader that announces the monitor before it opens the port.
mon_open_banner_first(m) ==
    /\ mon[m].pc = "open"
    /\ \E ok \in BOOLEAN :
         IF ok
         THEN /\ mon_ser' = "open"
              /\ MonPut(m, <<H("run", "put", "OUT", StartBanner)>>, "loop")
         ELSE /\ MonPut(m, <<H("run", "put", "OUT", StartBanner),
                             H("run", "put", "ERR", OpenFailText)>>, "finally")
              /\ UNCHANGED mon_ser
    /\ UNCHANGED <<procVars, worker, mon_thread, mon_stop_evt, mon_running,
                   mon_line_buf, widgetVars, selVars, envVars, var_status, tr>>
    /\ msgbox' = ""

\* lines 426-427 and 474-475: serial.Serial(...) opens the port, or raises
mon_open(m) ==
    /\ mon[m].pc = "open"
    /\ \E ok \in BOOLEAN :
         IF ok
         THEN /\ mon_ser' = "open"
              /\ MonPut(m, <<H("run", "put", "OUT", StartBanner)>>, "loop")
         ELSE /\ MonPut(m, <<H("run", "put", "ERR", OpenFailText)>>, "finally")
              /\ UNCHANGED mon_ser
    /\ UNCHANGED <<procVars, worker, mon_thread, mon_stop_evt, mon_running,
                   mon_line_buf, widgetVars, selVars, envVars, var_status, tr>>
    /\ msgbox' = ""

\* A loop that never looks at the stop event.
mon_check_ignores_stop(m) ==
    /\ mon[m].pc = "loop"
    /\ mon' = [mon EXCEPT ![m].pc = "read"]
    /\ UNCHANGED <<procVars, log_q, worker, mon_thread, mon_stop_evt, mon_ser,
                   mon_running, mon_line_buf, widgetVars, selVars, envVars,
                   var_status, tr>>
    /\ msgbox' = ""

\* line 429: the loop condition
mon_check(m) ==
    /\ mon[m].pc = "loop"
    /\ mon' = [mon EXCEPT ![m].pc = IF mon_stop_evt THEN "finally" ELSE "read"]
    /\ UNCHANGED <<procVars, log_q, worker, mon_thread, mon_stop_evt, mon_ser,
                   mon_running, mon_line_buf, widgetVars, selVars, envVars,
                   var_status, tr>>
    /\ msgbox' = ""

\* lines 436-465: what one decoded chunk makes of the line buffer, and the
\* payloads put, in the display mode ts
Feed(ts, buf, chunk) ==
    IF ~ts THEN [lines |-> <<RawText(chunk)>>, buf |-> buf]
    ELSE TsLines(buf \o TsText(chunk))

\* lines 430-472: one iteration's body. A read on a port that stop_monitor has
\* closed raises; an open port times out, delivers a chunk, or fails.
mon_read(m) ==
    /\ mon[m].pc = "read"
    /\ \/ /\ mon_ser # "open"
          /\ \E t \in {SerialExceptionText, MonitorExceptionText} :
               MonPut(m, <<H("run", "put", "ERR", t)>>, "finally")
          /\ UNCHANGED <<mon_line_buf, rx>>
       \/ /\ mon_ser = "open"
          /\ mon' = [mon EXCEPT ![m].pc = "loop"]
          /\ UNCHANGED <<log_q, mon_line_buf, rx>>
       \/ /\ mon_ser = "open"
          /\ rx # << >>
          /\ rx' = Tail(rx)
          /\ LET r == Feed(var_mon_timestamp, mon_line_buf, Head(rx))
                 hs == HLines("run", "put", "OUT", r.lines)
             IN  /\ Put(hs)
                 /\ mon' = [mon EXCEPT ![m].pc = "loop", ![m].sent = @ \o hs,
                                       ![m].got = @ \o Head(rx)]
                 /\ mon_line_buf' = r.buf
       \/ /\ mon_ser = "open"
          /\ MonPut(m, <<H("run", "put", "ERR", SerialExceptionText)>>, "finally")
          /\ UNCHANGED <<mon_line_buf, rx>>
    /\ UNCHANGED <<procVars, worker, mon_thread, mon_stop_evt, mon_ser, mon_running,
                   widgetVars, selVars, tool_script, var_status, tr>>
    /\ msgbox' = ""

\* lines 477-491: flush the partial line (timestamp mode), close, forget the port
mon_finally(m) ==
    /\ mon[m].pc = "finally"
    /\ IF var_mon_timestamp /\ mon_line_buf # << >>
       THEN /\ MonPut(m, <<H("run", "flush", "OUT", TsPrefix \o mon_line_buf)>>, "banner")
            /\ mon_line_buf' = << >>
       ELSE /\ mon' = [mon EXCEPT ![m].pc = "banner"]
            /\ UNCHANGED <<log_q, mon_line_buf>>
    /\ mon_ser' = "None"
    /\ UNCHANGED <<procVars, worker, mon_thread, mon_stop_evt, mon_running,
                   widgetVars, selVars, envVars, var_status, tr>>
    /\ msgbox' = ""

\* A reader that posts MON_DONE before its stop banner.
StopPutsDoneFirst == <<H("run", "put", "MON_DONE", << >>), H("run", "put", "OUT", StopBanner)>>

\* lines 492-493: what the reader puts last
StopPuts == <<H("run", "put", "OUT", StopBanner), H("run", "put", "MON_DONE", << >>)>>

\* lines 492-493: the stop banner, then MON_DONE
mon_banner(m) ==
    /\ mon[m].pc = "banner"
    /\ MonPut(m, StopPuts, "exit")
    /\ UNCHANGED <<procVars, worker, mon_thread, mon_stop_evt, mon_ser, mon_running,
                   mon_line_buf, widgetVars, selVars, envVars, var_status, tr>>
    /\ msgbox' = ""

\* reader() returns: is_alive() becomes false
mon_exit(m) ==
    /\ mon[m].pc = "exit"
    /\ mon' = [mon EXCEPT ![m] = [NoReader EXCEPT !.pc = "dead"]]
    /\ UNCHANGED <<procVars, log_q, worker, mon_thread, mon_stop_evt, mon_ser,
                   mon_running, mon_line_buf, widgetVars, selVars, envVars,
                   var_status, tr>>
    /\ msgbox' = ""

\* ---------------------------------------------------------- UI Controller
\* The controller state a handler rewrites step by step, as one record.
Ctl ==
    [btn_flash |-> btn_flash, btn_erase |-> btn_erase, btn_mac |-> btn_mac,
     btn_monitor |-> btn_monitor, cmb_port |-> cmb_port, cmb_chip |-> cmb_chip,
     cmb_baud |-> cmb_baud, cmb_mon_baud |-> cmb_mon_baud,
     var_status |-> var_status, mon_running |-> mon_running,
     mon_stop_evt |-> mon_stop_evt, mon_ser |-> mon_ser]

SetCtl(c) ==
    /\ btn_flash' = c.btn_flash
    /\ btn_erase' = c.btn_erase
    /\ btn_mac' = c.btn_mac
    /\ btn_monitor' = c.btn_monitor
    /\ cmb_port' = c.cmb_port
    /\ cmb_chip' = c.cmb_chip
    /\ cmb_baud' = c.cmb_baud
    /\ cmb_mon_baud' = c.cmb_mon_baud
    /\ var_status' = c.var_status
    /\ mon_running' = c.mon_running
    /\ mon_stop_evt' = c.mon_stop_evt
    /\ mon_ser' = c.mon_ser

\* _disable_ui(disabled)
DisableUi(c, disabled) ==
    LET sel == IF disabled THEN "disabled"
               ELSE IF c.mon_running THEN "disabled" ELSE "readonly"
    IN  [c EXCEPT !.btn_flash = IF disabled THEN "disabled" ELSE "normal",
                  !.btn_erase = IF disabled THEN "disabled" ELSE "normal",
                  !.btn_mac = IF disabled THEN "disabled" ELSE "normal",
                  !.cmb_port = sel, !.cmb_chip = sel, !.cmb_baud = sel,
                  !.cmb_mon_baud = IF disabled \/ c.mon_running THEN "disabled"
                                   ELSE "readonly"]

\* stop_monitor()
StopMonitor(c) ==
    [c EXCEPT !.mon_stop_evt = TRUE,
              !.mon_ser = IF c.mon_ser = "open" THEN "closed" ELSE @,
              !.mon_running = FALSE,
              !.btn_monitor = "Serial Monitor",
              !.var_status = "Ready",
              !.cmb_port = "readonly", !.cmb_chip = "readonly",
              !.cmb_baud = "readonly", !.cmb_mon_baud = "readonly",
              !.btn_flash = "normal", !.btn_erase = "normal", !.btn_mac = "normal"]

\* the monitor-related disabling of start_monitor (lines 503-510) and of the
\* DONE branch of _poll_logs (lines 564-570)
MonitorDisable(c) ==
    [c EXCEPT !.cmb_port = "disabled", !.cmb_chip = "disabled",
              !.cmb_baud = "disabled", !.cmb_mon_baud = "disabled",
              !.btn_flash = "disabled", !.btn_erase = "disabled",
              !.btn_mac = "disabled"]

\* the reader is in its read loop and no stop has been requested
Streaming == MonThreadAlive /\ mon[mon_thread].pc \in {"loop", "read"} /\ ~mon_stop_evt

FreeTool == {i \in ToolIds : ~ToolAlive(i)}
FreeMon == {m \in MonIds : ~MonAlive(m)}

\* A _start_task without the "Busy" test on self.worker.
start_task_unchecked(argv, dir) ==
    /\ FreeTool # {}
    /\ LET c1 == IF mon_running THEN StopMonitor(Ctl) ELSE Ctl
           c2 == [DisableUi(c1, TRUE) EXCEPT !.var_status = "Working"]
           i == CHOOSE j \in FreeTool : \A k \in FreeTool : j <= k
       IN  /\ SetCtl(c2)
           /\ tr' = [tr EXCEPT ![i] = [NoThread EXCEPT !.pc = "start",
                                       !.argv = argv, !.cwd = dir,
                                       !.preempted = IF Streaming THEN mon_thread ELSE 0]]
           /\ worker' = i
    /\ msgbox' = ""

\* _start_task(argv, cwd)
start_task(argv, dir) ==
    IF WorkerAlive
    THEN /\ msgbox' = "Busy: Another operation is running."
         /\ UNCHANGED <<worker, tr, widgetVars, var_status, mon_running,
                        mon_stop_evt, mon_ser>>
    ELSE /\ FreeTool # {}
         /\ LET c1 == IF mon_running THEN StopMonitor(Ctl) ELSE Ctl
                c2 == [DisableUi(c1, TRUE) EXCEPT !.var_status = "Working"]
                i == CHOOSE j \in FreeTool : \A k \in FreeTool : j <= k
            IN  /\ SetCtl(c2)
                /\ tr' = [tr EXCEPT ![i] = [NoThread EXCEPT !.pc = "start",
                                            !.argv = argv, !.cwd = dir,
                                            !.preempted = IF Streaming THEN mon_thread ELSE 0]]
                /\ worker' = i
         /\ msgbox' = ""

\* str.upper() on the letters that occur in device identifiers
Upper(c) ==
    CASE c = "c" -> "C" [] c = "o" -> "O" [] c = "m" -> "M"
      [] c = "t" -> "T" [] c = "y" -> "Y" [] OTHER -> c

UpperAll(s) == [i \in 1..Len(s) |-> Upper(s[i])]

Digits == <<"0", "1", "2", "3", "4", "5", "6", "7", "8", "9">>
IsDigit(c) == \E d \in 1..10 : Digits[d] = c
DigitValue(c) == (CHOOSE d \in 1..10 : Digits[d] = c) - 1

\* int(s) for s made of decimal digits
RECURSIVE DecimalValue(_)
DecimalValue(s) ==
    IF s = << >> THEN 0
    ELSE 10 * DecimalValue(SubSeq(s, 1, Len(s) - 1)) + DigitValue(s[Len(s)])

\* int(s) raises ValueError unless s is an optional sign followed by digits
IntParses(s) ==
    LET body == IF s # << >> /\ s[1] \in {"+", "-"} THEN Tail(s) ELSE s
    IN  body # << >> /\ \A i \in 1..Len(body) : IsDigit(body[i])

IntOf(s) ==
    IF s[1] = "-" THEN 0 - DecimalValue(Tail(s))
    ELSE IF s[1] = "+" THEN DecimalValue(Tail(s))
    ELSE DecimalValue(s)

\* lines 57, 59, 60: the key of an identifier that is not COM + a number
NoComKey == 9999

\* lines 53-60: com_sort_key, by device identifier
com_sort_key ==
    [name \in DOMAIN Spelling |->
        LET dev == UpperAll(Spelling[name])
        IN  IF Len(dev) >= 3 /\ SubSeq(dev, 1, 3) = <<"C", "O", "M">>
            THEN IF IntParses(SubSeq(dev, 4, Len(dev)))
                 THEN IntOf(SubSeq(dev, 4, Len(dev)))
                 ELSE NoComKey
            ELSE NoComKey]

\* list.sort(key=...) is stable: x goes after every element whose key is not
\* greater than its own
RECURSIVE InsertByKey(_, _)
InsertByKey(x, sorted) ==
    IF sorted = << >> THEN <<x>>
    ELSE IF com_sort_key[Head(sorted)] <= com_sort_key[x]
         THEN <<Head(sorted)>> \o InsertByKey(x, Tail(sorted))
         ELSE <<x>> \o sorted

RECURSIVE SortByKey(_)
SortByKey(ps) ==
    IF ps = << >> THEN << >>
    ELSE InsertByKey(ps[Len(ps)], SortByKey(SubSeq(ps, 1, Len(ps) - 1)))

\* lines 42-63: the devices in the order of the returned list (the display
\* text of a device is the device identifier followed by its description)
list_serial_ports(enumerated) == SortByKey(enumerated)

Range(f) == {f[i] : i \in DOMAIN f}

\* lines 271-283: the Refresh button, on a machine that now enumerates ps
refresh_ports(ps) ==
    /\ comports' = ps
    /\ LET ports == list_serial_ports(ps)
       IN  /\ port_values' = ports
           /\ IF ports # << >>
              THEN /\ port' = IF port \in Range(ports) THEN port ELSE ports[1]
                   /\ var_status' = "Found port(s)"
              ELSE /\ port' = ""
                   /\ var_status' = "No ports found"
    /\ UNCHANGED <<procVars, log_q, worker, monVars, widgetVars, var_mon_timestamp,
                   var_path, envVars, tr>>
    /\ msgbox' = ""

\* A discovery that looks in the build folder first.
find_flash_args_build_first(path) ==
    IF path \o <<"build", "flash_args">> \in Files THEN path \o <<"build", "flash_args">>
    ELSE IF path \o <<"flash_args">> \in Files THEN path \o <<"flash_args">>
    ELSE << >>

\* find_flash_args(path): the first candidate that is a regular file, or none
find_flash_args(path) ==
    LET candidates == <<path \o <<"flash_args">>, path \o <<"build", "flash_args">>>>
    IN  IF candidates[1] \in Files THEN candidates[1]
        ELSE IF candidates[2] \in Files THEN candidates[2]
        ELSE << >>

\* Path.parent
Parent(p) == SubSeq(p, 1, Len(p) - 1)

\* the argument vector of the three operations (chip and flash baud at their
\* initial selections)
Argv(sub) == <<"esptool", "--chip", "esp32", "--port", port>> \o sub

toolFrame == <<procVars, log_q, mon_thread, mon_line_buf, mon, selVars, envVars>>

\* messagebox.show*: msgbox is the dialog the last step put up, "" when it put
\* up none. Every handler that opens a dialog returns right after it, so
\* nothing depends on how long the dialog stays on screen.
NoPort ==
    /\ msgbox' = "No Port: Please select a COM port."
    /\ UNCHANGED <<procVars, log_q, worker, monVars, widgetVars, selVars,
                   envVars, var_status, tr>>

\* flash()
flash ==
    IF port = "" THEN NoPort
    ELSE IF find_flash_args(var_path) = << >>
    THEN /\ msgbox' = "Missing flash_args"
         /\ UNCHANGED <<procVars, log_q, worker, monVars, widgetVars, selVars,
                        envVars, var_status, tr>>
    ELSE /\ start_task(Argv(<<"--baud", "460800", "write-flash", "@flash_args">>),
                       Parent(find_flash_args(var_path)))
         /\ UNCHANGED toolFrame

\* erase()
erase ==
    IF port = "" THEN NoPort
    ELSE /\ start_task(Argv(<<"--baud", "460800", "erase-flash">>), cwd)
         /\ UNCHANGED toolFrame

\* read_mac()
read_mac ==
    IF port = "" THEN NoPort
    ELSE /\ start_task(Argv(<<"read-mac">>), cwd)
         /\ UNCHANGED toolFrame

\* A start_monitor that tests self.worker only after it has cleared the stop
\* event and the line buffer.
BusyWaitLate ==
    /\ mon_stop_evt' = FALSE
    /\ mon_line_buf' = << >>
    /\ msgbox' = "Busy: Wait for the current esptool operation to finish."
    /\ UNCHANGED <<procVars, log_q, worker, mon_thread, mon_ser, mon_running, mon,
                   widgetVars, selVars, envVars, var_status, tr>>

\* start_monitor(), the branch taken while the worker is alive: a warning,
\* then return
BusyWait ==
    /\ msgbox' = "Busy: Wait for the current esptool operation to finish."
    /\ UNCHANGED <<procVars, log_q, worker, monVars, widgetVars, selVars,
                   envVars, var_status, tr>>

\* start_monitor()
start_monitor ==
    IF port = "" THEN NoPort
    ELSE IF WorkerAlive THEN BusyWait
    ELSE IF MonThreadAlive
    THEN /\ msgbox' = ""
         /\ UNCHANGED <<procVars, log_q, worker, monVars, widgetVars, selVars,
                        envVars, var_status, tr>>
    ELSE /\ FreeMon # {}
         /\ LET m == CHOOSE j \in FreeMon : \A k \in FreeMon : j <= k
            IN  /\ mon' = [mon EXCEPT ![m] = [NoReader EXCEPT !.pc = "open", !.port = port,
                                                            !.baud = 115200]]
                /\ mon_thread' = m
         /\ mon_line_buf' = << >>
         /\ SetCtl([MonitorDisable(Ctl) EXCEPT !.mon_stop_evt = FALSE,
                                               !.mon_running = TRUE,
                                               !.btn_monitor = "Stop Monitor",
                                               !.var_status = "Monitoring"])
         /\ UNCHANGED <<procVars, log_q, worker, selVars, envVars, tr>>
         /\ msgbox' = ""

\* stop_monitor()
stop_monitor ==
    /\ SetCtl(StopMonitor(Ctl))
    /\ UNCHANGED <<procVars, log_q, worker, mon_thread, mon_line_buf, mon, selVars,
                   envVars, tr>>
    /\ msgbox' = ""

\* toggle_monitor()
toggle_monitor == IF mon_running THEN stop_monitor ELSE start_monitor

\* the Timestamp check button
set_timestamp ==
    /\ var_mon_timestamp' = ~var_mon_timestamp
    /\ UNCHANGED <<procVars, log_q, worker, monVars, widgetVars, var_path, portVars,
                   envVars, var_status, tr>>
    /\ msgbox' = ""

\* lines 546-547, 556-557: the text one tick appends to the log view, the
\* "".join of the OUT and ERR payloads of q, in order
RECURSIVE OutChunks(_)
OutChunks(q) ==
    IF q = << >> THEN << >>
    ELSE (IF Head(q).kind \in {"OUT", "ERR"} THEN Head(q).text ELSE << >>)
         \o OutChunks(Tail(q))

HasKind(q, kind) == \E k \in 1..Len(q) : q[k].kind = kind

\* lines 560-573: the DONE branch
PollDone(c) ==
    LET c1 == DisableUi(c, FALSE)
    IN  IF c1.mon_running
        THEN [MonitorDisable(c1) EXCEPT !.var_status = "Monitoring"]
        ELSE [c1 EXCEPT !.var_status = "Done"]

\* lines 576-589: the MON_DONE branch
PollMonDone(c) ==
    [c EXCEPT !.mon_running = FALSE,
              !.btn_monitor = "Serial Monitor",
              !.cmb_mon_baud = "readonly", !.cmb_port = "readonly",
              !.cmb_chip = "readonly", !.cmb_baud = "readonly",
              !.btn_flash = "normal", !.btn_erase = "normal", !.btn_mac = "normal",
              !.var_status = "Ready"]

\* what one tick of _poll_logs makes of the controller state c with q pending
PollApply(c, q) ==
    LET c2 == IF HasKind(q, "DONE") THEN PollDone(c) ELSE c
    IN  IF HasKind(q, "MON_DONE") THEN PollMonDone(c2) ELSE c2

\* _poll_logs(): one timer tick
poll_logs ==
    /\ SetCtl(PollApply(Ctl, log_q))
    /\ log_q' = << >>
    /\ UNCHANGED <<procVars, worker, mon_thread, mon_line_buf, mon, selVars, envVars,
                   tr>>
    /\ msgbox' = ""

\* ------------------------------------------------------- specifications
\* every sequence of at most n elements of S
SeqsUpTo(S, n) == UNION {[1..k -> S] : k \in 0..n}

\* The state after EspFlashGUI.__init__: the program was launched in one of
\* the directories (var_path starts as the current directory), and the
\* refresh_ports() of __init__ found the port or found none.
Init ==
    /\ cwd \in Dirs
    /\ var_path = cwd
    /\ sys_argv = <<"esp_flash_tool.py">>
    /\ sys_stdout = "stdout"
    /\ sys_stderr = "stderr"
    /\ log_q = << >>
    /\ worker = 0
    /\ mon_thread = 0
    /\ mon_stop_evt = FALSE
    /\ mon_ser = "None"
    /\ mon_running = FALSE
    /\ var_mon_timestamp = FALSE
    /\ mon_line_buf = << >>
    /\ comports \in {<< >>} \cup {<<p>> : p \in Ports}
    /\ port_values = list_serial_ports(comports)
    /\ port = IF port_values = << >> THEN "" ELSE port_values[1]
    /\ var_status = IF port = "" THEN "No ports found" ELSE "Found port(s)"
    /\ btn_flash = "normal"
    /\ btn_erase = "normal"
    /\ btn_mac = "normal"
    /\ btn_monitor = "Serial Monitor"
    /\ cmb_port = "readonly"
    /\ cmb_chip = "readonly"
    /\ cmb_baud = "readonly"
    /\ cmb_mon_baud = "readonly"
    /\ msgbox = ""
    /\ tr = [i \in ToolIds |-> NoThread]
    /\ mon = [m \in MonIds |-> NoReader]
    /\ tool_script = MainToolScript
    /\ rx = MainRx

ToolStep == \E i \in ToolIds : tr_begin(i) \/ tr_write(i) \/ tr_end(i) \/ tr_finally(i) \/ tr_exit(i)

MonStep ==
    \E m \in MonIds :
        mon_open(m) \/ mon_check(m) \/ mon_read(m) \/ mon_finally(m) \/ mon_banner(m) \/ mon_exit(m)

\* A widget's command runs only while the widget is enabled.
click_flash == btn_flash = "normal" /\ flash
click_erase == btn_erase = "normal" /\ erase
click_mac == btn_mac = "normal" /\ read_mac

\* The whole program with the monitor in its initial display mode (raw).
Next ==
    \/ click_flash \/ click_erase \/ click_mac \/ toggle_monitor
    \/ poll_logs \/ ToolStep \/ MonStep

Spec == Init /\ [][Next]_vars

\* ------------------------------------------- specification of one tool run
\* What the tool can write in one write call: nothing, a partial line, bare
\* line ends, and chunks with line ends inside.
ToolChunks ==
    {<< >>, <<"a">>, <<LF>>, <<CR>>, <<"a", LF, "b">>, <<"a", CR, LF>>}

\* A write call on the redirected stdout (OUT) or stderr (ERR).
ToolWrites == [to : {"OUT", "ERR"}, s : ToolChunks]

\* The state right after _start_task in the initial window: the buttons and
\* selectors disabled, the status "Working...", the first Tool Runner thread
\* started on read-mac (in the current directory) or on a flash (in the
\* directory of the argument file); the tool will make up to MaxToolWrites
\* write calls.
InitTool ==
    /\ cwd \in Dirs
    /\ var_path = cwd
    /\ sys_argv = <<"esp_flash_tool.py">>
    /\ sys_stdout = "stdout"
    /\ sys_stderr = "stderr"
    /\ log_q = << >>
    /\ worker = 1
    /\ mon_thread = 0
    /\ mon_stop_evt = FALSE
    /\ mon_ser = "None"
    /\ mon_running = FALSE
    /\ var_mon_timestamp = FALSE
    /\ mon_line_buf = << >>
    /\ comports \in {<<p>> : p \in Ports}
    /\ port_values = list_serial_ports(comports)
    /\ port = port_values[1]
    /\ var_status = "Working"
    /\ btn_flash = "disabled"
    /\ btn_erase = "disabled"
    /\ btn_mac = "disabled"
    /\ btn_monitor = "Serial Monitor"
    /\ cmb_port = "disabled"
    /\ cmb_chip = "disabled"
    /\ cmb_baud = "disabled"
    /\ cmb_mon_baud = "disabled"
    /\ msgbox = ""
    /\ \E dir \in {cwd, <<"proj", "build">>} :
         tr = [i \in ToolIds |->
                 IF i = 1
                 THEN [NoThread EXCEPT !.pc = "start", !.argv = Argv(<<"read-mac">>),
                                       !.cwd = dir]
                 ELSE NoThread]
    /\ mon = [m \in MonIds |-> NoReader]
    /\ tool_script \in SeqsUpTo(ToolWrites, MaxToolWrites)
    /\ rx = << >>

NextTool == ToolStep \/ poll_logs

SpecTool == InitTool /\ [][NextTool]_vars

\* ------------------------------------- specification of a monitor session
\* What the device can deliver in one read: a partial line, a line ended by
\* CRLF, a bare carriage return, a newline followed by text, and a CRLF line
\* followed by a line ended by a bare carriage return.
RxChunks == {<<"x">>, <<"x", CR, LF>>, <<CR>>, <<LF, "y">>, <<"a", CR, LF, "b", CR>>}

\* The state right after start_monitor in the initial window: the reader
\* thread started, the running flag set, the selectors and the buttons
\* disabled; the display mode is raw or timestamped; the device will send up to
\* MaxReads chunks.
InitMon ==
    /\ cwd \in Dirs
    /\ var_path = cwd
    /\ sys_argv = <<"esp_flash_tool.py">>
    /\ sys_stdout = "stdout"
    /\ sys_stderr = "stderr"
    /\ log_q = << >>
    /\ worker = 0
    /\ mon_thread = 1
    /\ mon_stop_evt = FALSE
    /\ mon_ser = "None"
    /\ mon_running = TRUE
    /\ var_mon_timestamp \in BOOLEAN
    /\ mon_line_buf = << >>
    /\ comports \in {<<p>> : p \in Ports}
    /\ port_values = list_serial_ports(comports)
    /\ port = port_values[1]
    /\ var_status = "Monitoring"
    /\ btn_flash = "disabled"
    /\ btn_erase = "disabled"
    /\ btn_mac = "disabled"
    /\ btn_monitor = "Stop Monitor"
    /\ cmb_port = "disabled"
    /\ cmb_chip = "disabled"
    /\ cmb_baud = "disabled"
    /\ cmb_mon_baud = "disabled"
    /\ msgbox = ""
    /\ tr = [i \in ToolIds |-> NoThread]
    /\ mon = [m \in MonIds |->
                IF m = 1
                THEN [NoReader EXCEPT !.pc = "open", !.port = port, !.baud = 115200]
                ELSE NoReader]
    /\ tool_script = << >>
    /\ rx \in SeqsUpTo(RxChunks, MaxReads)

NextMon == MonStep \/ toggle_monitor \/ set_timestamp \/ poll_logs

SpecMon == InitMon /\ [][NextMon]_vars

\* One monitor session on a device that sends one partial line.
InitStop == InitMon /\ rx = MainRx

\* -------------------- specification of a monitor session in timestamped mode
\* The Timestamp check button was set before the monitor was started and is
\* left alone.
InitTs == InitMon /\ var_mon_timestamp

NextTs == MonStep \/ toggle_monitor \/ poll_logs

SpecTs == InitTs /\ [][NextTs]_vars

\* The reader thread keeps being scheduled and every read returns (the port is
\* opened with timeout=0.2), and the poll tick is rescheduled every 120 ms.
SpecStop == InitStop /\ [][NextMon]_vars /\ WF_vars(MonStep) /\ WF_vars(poll_logs)

\* every list of at most n distinct elements of S
ListsUpTo(S, n) == {q \in SeqsUpTo(S, n) : \A i, j \in 1..Len(q) : q[i] = q[j] => i = j}

\* what list_ports.comports() can return
Enumerations == ListsUpTo(PortNames, MaxPorts)

\* The state after EspFlashGUI.__init__ on a machine with some serial ports:
\* the refresh_ports() of __init__ has listed them and selected the first.
InitPorts ==
    /\ cwd = <<"home">>
    /\ var_path = cwd
    /\ sys_argv = <<"esp_flash_tool.py">>
    /\ sys_stdout = "stdout"
    /\ sys_stderr = "stderr"
    /\ log_q = << >>
    /\ worker = 0
    /\ mon_thread = 0
    /\ mon_stop_evt = FALSE
    /\ mon_ser = "None"
    /\ mon_running = FALSE
    /\ var_mon_timestamp = FALSE
    /\ mon_line_buf = << >>
    /\ comports \in Enumerations
    /\ port_values = list_serial_ports(comports)
    /\ port = IF port_values = << >> THEN "" ELSE port_values[1]
    /\ var_status = IF port = "" THEN "No ports found" ELSE "Found port(s)"
    /\ btn_flash = "normal"
    /\ btn_erase = "normal"
    /\ btn_mac = "normal"
    /\ btn_monitor = "Serial Monitor"
    /\ cmb_port = "readonly"
    /\ cmb_chip = "readonly"
    /\ cmb_baud = "readonly"
    /\ cmb_mon_baud = "readonly"
    /\ msgbox = ""
    /\ tr = [i \in ToolIds |-> NoThread]
    /\ mon = [m \in MonIds |-> NoReader]
    /\ tool_script = MainToolScript
    /\ rx = MainRx

\* the Refresh button, after ports were plugged in or removed
click_refresh == \E ps \in Enumerations : refresh_ports(ps)

NextPorts == click_refresh

SpecPorts == InitPorts /\ [][NextPorts]_vars

\* ------------------------------------ specification of the Flash button
\* The state after EspFlashGUI.__init__ and browse_folder: the program was
\* launched in home, a port was found, and the user has selected a folder.
InitFlash ==
    /\ cwd = <<"home">>
    /\ var_path \in FlashDirs
    /\ sys_argv = <<"esp_flash_tool.py">>
    /\ sys_stdout = "stdout"
    /\ sys_stderr = "stderr"
    /\ log_q = << >>
    /\ worker = 0
    /\ mon_thread = 0
    /\ mon_stop_evt = FALSE
    /\ mon_ser = "None"
    /\ mon_running = FALSE
    /\ var_mon_timestamp = FALSE
    /\ mon_line_buf = << >>
    /\ comports \in {<<p>> : p \in Ports}
    /\ port_values = list_serial_ports(comports)
    /\ port = port_values[1]
    /\ var_status = "Found port(s)"
    /\ btn_flash = "normal"
    /\ btn_erase = "normal"
    /\ btn_mac = "normal"
    /\ btn_monitor = "Serial Monitor"
    /\ cmb_port = "readonly"
    /\ cmb_chip = "readonly"
    /\ cmb_baud = "readonly"
    /\ cmb_mon_baud = "readonly"
    /\ msgbox = ""
    /\ tr = [i \in ToolIds |-> NoThread]
    /\ mon = [m \in MonIds |-> NoReader]
    /\ tool_script = MainToolScript
    /\ rx = MainRx

\* The Flash button and the monitor button, with the poll tick and the threads.
NextFlash == click_flash \/ toggle_monitor \/ poll_logs \/ ToolStep \/ MonStep

SpecFlash == InitFlash /\ [][NextFlash]_vars

\* ------------------------------------------------------------- properties
\* A Tool Runner thread that has not yet posted DONE.
ToolRunning(i) == tr[i].pc \in {"start", "tool", "finally"}

\* All the controls the monitor disables are disabled.
Locked ==
    /\ btn_flash = "disabled"
    /\ btn_erase = "disabled"
    /\ btn_mac = "disabled"
    /\ cmb_port = "disabled"
    /\ cmb_chip = "disabled"
    /\ cmb_baud = "disabled"

\* the positions of hs whose message satisfies Test
Count(hs, Test(_)) == Cardinality({k \in 1..Len(hs) : Test(hs[k])})

\* "".join of the payloads a sink has put, in order
RECURSIVE SinkText(_, _)
SinkText(hs, by) ==
    IF hs = << >> THEN << >>
    ELSE (IF Head(hs).by = by THEN Head(hs).text ELSE << >>) \o SinkText(Tail(hs), by)

\* one line: a newline at the end and nowhere else
OneLine(t) == Len(t) >= 1 /\ t[Len(t)] = LF /\ \A k \in 1..(Len(t) - 1) : t[k] # LF

\* C1: in every reachable state, while a Tool Runner thread is alive no
\* monitor reader thread is alive and the serial port is not open.
C1_ToolExcludesMonitor ==
    \A i \in ToolIds :
        ToolAlive(i) => (\A m \in MonIds : ~MonAlive(m)) /\ mon_ser # "open"

\* The tool is running while a reader thread is in its read loop with the
\* port open.
C1_BothOnThePort ==
    \E i \in ToolIds, m \in MonIds :
        tr[i].pc = "tool" /\ mon[m].pc \in {"loop", "read"} /\ mon_ser = "open"

\* C2: when an operation was started while the monitor was streaming, the
\* reader that was streaming has put its stop banner and MON_DONE before the
\* operation's Tool Runner puts its first message.
C2_MonitorStopsFirst ==
    \A i \in ToolIds :
        tr[i].preempted # 0 /\ tr[i].sent # << >>
            => mon[tr[i].preempted].pc \in {"exit", "dead"}

\* The Tool Runner has put a message while the reader that was streaming when
\* the operation started is still in its read loop.
C2_ToolPutsFirst ==
    \E i \in ToolIds :
        /\ tr[i].preempted # 0
        /\ tr[i].sent # << >>
        /\ mon[tr[i].preempted].pc \in {"loop", "read"}

\* C3: while the worker thread is alive no step creates a reader thread, and
\* the step that rejects a start-monitor request (it puts up the "Busy: Wait"
\* warning) leaves the reader threads, the running flag, the stop signal, the
\* line buffer, the enablement of every control and the queue unchanged.
C3_StartMonitorRejected ==
    [][/\ WorkerAlive =>
            /\ mon_thread' = mon_thread
            /\ \A m \in MonIds : mon'[m].pc = "open" => mon[m].pc = "open"
       /\ msgbox' = "Busy: Wait for the current esptool operation to finish."
            => /\ WorkerAlive
               /\ UNCHANGED <<mon, mon_thread, mon_running, mon_stop_evt, mon_ser,
                              mon_line_buf, widgetVars, var_status, log_q>>]_vars

\* A start-monitor request was rejected after an earlier monitor had been
\* asked to stop.
C3_Rejected ==
    /\ msgbox = "Busy: Wait for the current esptool operation to finish."
    /\ mon_stop_evt

\* C4: at most one Tool Runner thread is alive in every reachable state, and
\* a step spawns a Tool Runner thread only when none is alive.
C4_OneToolRunner ==
    /\ [](Cardinality({i \in ToolIds : ToolAlive(i)}) <= 1)
    /\ [][\A i \in ToolIds :
            tr'[i].pc = "start" /\ tr[i].pc # "start"
                => \A j \in ToolIds : ~ToolAlive(j)]_vars

\* A request to start an operation was refused while the tool of the previous
\* operation was running (the buttons were enabled nevertheless).
C4_Refused ==
    /\ msgbox = "Busy: Another operation is running."
    /\ worker # 0
    /\ tr[worker].pc = "tool"

IsDone(h) == h.kind = "DONE"
IsRunErr(h) == h.by = "run" /\ h.kind = "ERR"
IsFlush(h) == h.via = "flush"
IsWrite(h) == h.via = "write"

ExitFailed(c) == c.ty = "str" \/ (c.ty = "int" /\ c.v # 0)

\* C6: when the tool has terminated by exiting, the Tool Runner has put one
\* ERR message of its own if the exit status is a failure (non-zero, or not an
\* integer such as a string) and none if the status is zero or absent.
C6_ErrIffFailedExit ==
    \A i \in ToolIds :
        tr[i].pc = "finally" /\ tr[i].end.t = "exit"
            => Count(tr[i].sent, IsRunErr) = IF ExitFailed(tr[i].end.code) THEN 1 ELSE 0

\* The tool exited with a string status and the Tool Runner put no ERR message.
C6_StringExitSilent ==
    \E i \in ToolIds :
        /\ tr[i].pc = "finally"
        /\ tr[i].end = [t |-> "exit", code |-> CodeStr]
        /\ Count(tr[i].sent, IsRunErr) = 0

C8_SinkConcatenation ==
    /\ [](\A i \in ToolIds :
            tr[i].pc \in {"tool", "finally", "exit"} =>
                /\ SinkText(tr[i].sent, "qout") \o tr[i].qout
                       = Replace1(tr[i].wrote.OUT, CR, <<LF>>)
                /\ SinkText(tr[i].sent, "qerr") \o tr[i].qerr
                       = Replace1(tr[i].wrote.ERR, CR, <<LF>>)
                /\ \A k \in 1..Len(tr[i].sent) :
                       IsWrite(tr[i].sent[k]) => OneLine(tr[i].sent[k].text)
                /\ tr[i].pc = "exit" => tr[i].qout = << >> /\ tr[i].qerr = << >>)
    /\ [][\A i \in ToolIds :
            tr[i].pc = "tool" /\ tool_script # << >> /\ tool_script' = Tail(tool_script)
                => IF Head(tool_script).to = "OUT"
                   THEN tr'[i].qerr = tr[i].qerr
                   ELSE tr'[i].qout = tr[i].qout]_vars

\* A run has ended in which a carriage return was written to stdout and
\* something was written to stderr, one of them leaving a partial line for
\* the flush.
C8_BothSinksUsed ==
    \E i \in ToolIds :
        /\ tr[i].pc = "exit"
        /\ Contains(tr[i].wrote.OUT, CR)
        /\ tr[i].wrote.ERR # << >>
        /\ Count(tr[i].sent, IsFlush) >= 1

\* C9: while the monitor is running, a step that enables any of the port,
\* chip and baud selectors or the flash, erase and read-mac buttons is a poll
\* tick that drains a MON_DONE marker.
C9_LockedUntilMonDone ==
    [][mon_running /\ Locked /\ ~Locked'
        => HasKind(log_q, "MON_DONE") /\ log_q' = << >>]_vars

\* A stop request has re-enabled the buttons while the reader thread is still
\* in its loop and has not yet posted MON_DONE.
C9_EnabledByStop ==
    /\ MonThreadAlive
    /\ mon[mon_thread].pc \in {"loop", "read"}
    /\ mon_stop_evt
    /\ ~mon_running
    /\ btn_flash = "normal"
    /\ cmb_port = "readonly"

\* C10: in every reachable state in which a Tool Runner thread is running
\* (it has not yet posted DONE), the flash, erase and read-mac buttons are
\* disabled.
C10_ButtonsOffWhileToolRuns ==
    \A i \in ToolIds :
        ToolRunning(i) =>
            btn_flash = "disabled" /\ btn_erase = "disabled" /\ btn_mac = "disabled"

\* The tool is running and the flash button is enabled.
C10_EnabledWhileToolRuns ==
    \E i \in ToolIds : tr[i].pc = "tool" /\ btn_flash = "normal"

IsMonDone(h) == h.kind = "MON_DONE"
IsStopBanner(h) == h.text = StopBanner
IsErr(h) == h.kind = "ERR"

\* C11: a reader run has put neither the stop banner nor MON_DONE before its
\* finally clause has closed and forgotten the port; the step of the finally
\* clause leaves the port not open and, in timestamped mode with a partial
\* line buffered, puts that line (prefixed) and empties the buffer; once the
\* run has ended, its last two messages are the stop banner and then
\* MON_DONE, and it has put exactly one of each.
C11_ReaderEndsInOrder ==
    /\ [](\A m \in MonIds :
            /\ mon[m].pc \in {"open", "loop", "read", "finally"} =>
                 Count(mon[m].sent, IsMonDone) = 0 /\ Count(mon[m].sent, IsStopBanner) = 0
            /\ mon[m].pc \in {"banner", "exit"} => mon_ser # "open"
            /\ mon[m].pc = "banner" =>
                 Count(mon[m].sent, IsMonDone) = 0 /\ Count(mon[m].sent, IsStopBanner) = 0
            /\ mon[m].pc = "exit" =>
                 /\ Len(mon[m].sent) >= 2
                 /\ IsMonDone(mon[m].sent[Len(mon[m].sent)])
                 /\ IsStopBanner(mon[m].sent[Len(mon[m].sent) - 1])
                 /\ Count(mon[m].sent, IsMonDone) = 1
                 /\ Count(mon[m].sent, IsStopBanner) = 1)
    /\ [][\A m \in MonIds :
            mon[m].pc = "finally" /\ mon'[m].pc = "banner" =>
                /\ mon_ser' # "open"
                /\ IF var_mon_timestamp /\ mon_line_buf # << >>
                   THEN /\ mon'[m].sent = Append(mon[m].sent,
                                 H("run", "flush", "OUT", TsPrefix \o mon_line_buf))
                        /\ mon_line_buf' = << >>
                   ELSE mon'[m].sent = mon[m].sent]_vars

\* A run in timestamped mode that ended on a read error with a partial line
\* buffered has finished: error, flushed line, stop banner, MON_DONE.
C11_EndedOnErrorWithPartialLine ==
    \E m \in MonIds :
        /\ mon[m].pc = "exit"
        /\ Count(mon[m].sent, IsErr) = 1
        /\ Count(mon[m].sent, IsFlush) = 1

\* the run of this reader began with a failure to open the port
OpenFailed(m) == mon[m].sent # << >> /\ mon[m].sent[1].text = OpenFailText

\* C12: the step that leaves the opening stage either opens the port, or puts
\* one ERR message (the open failure) as the run's first message and goes to
\* the finally clause with the port not open; a run that began with an open
\* failure is never in the read loop and puts nothing but that error, the stop
\* banner and MON_DONE (no start banner, no device data); and the poll tick
\* that drains a MON_DONE leaves the running flag cleared.
C12_OpenFailure ==
    /\ [](\A m \in MonIds :
            OpenFailed(m) =>
                /\ mon[m].pc \in {"finally", "banner", "exit"}
                /\ IsErr(mon[m].sent[1])
                /\ \A k \in 2..Len(mon[m].sent) :
                       /\ k <= 3
                       /\ mon[m].sent[k] = StopPuts[k - 1])
    /\ [][/\ \A m \in MonIds :
               mon[m].pc = "open" /\ mon'[m].pc # "open" =>
                   \/ mon'[m].pc = "loop" /\ mon_ser' = "open"
                   \/ /\ mon'[m].pc = "finally"
                      /\ mon'[m].sent = <<H("run", "put", "ERR", OpenFailText)>>
                      /\ mon_ser' # "open"
          /\ HasKind(log_q, "MON_DONE") /\ log_q' = << >> => ~mon_running']_vars

\* A run whose open failed has ended and its MON_DONE has been drained: the
\* running flag is cleared though no stop was requested.
C12_FailedOpenDrained ==
    \E m \in MonIds :
        /\ mon[m].pc = "exit"
        /\ OpenFailed(m)
        /\ Len(mon[m].sent) = 3
        /\ log_q = << >>
        /\ ~mon_running
        /\ ~mon_stop_evt

\* a chunk read in one pass: a CRLF pair gives one newline, any other carriage
\* return gives nothing, every other character gives itself
RECURSIVE CollapseAndStrip(_)
CollapseAndStrip(s) ==
    IF s = << >> THEN << >>
    ELSE IF Head(s) = CR /\ Len(s) >= 2 /\ s[2] = LF
         THEN <<LF>> \o CollapseAndStrip(SubSeq(s, 3, Len(s)))
    ELSE IF Head(s) = CR THEN CollapseAndStrip(Tail(s))
    ELSE <<Head(s)>> \o CollapseAndStrip(Tail(s))

\* C13: in raw mode the step that reads a chunk from the device puts exactly
\* one OUT message, whose payload is the chunk with each CRLF pair replaced by
\* one newline and every other carriage return removed, and leaves the line
\* buffer as it was; "abc\r\ndef\r" gives "abc\ndef".
C13_RawChunk ==
    /\ [](RawText(<<"a", "b", "c", CR, LF, "d", "e", "f", CR>>)
              = <<"a", "b", "c", LF, "d", "e", "f">>)
    /\ [][\A m \in MonIds :
            (mon[m].pc = "read" /\ rx # << >> /\ rx' = Tail(rx) /\ ~var_mon_timestamp) =>
                /\ mon'[m].sent = Append(mon[m].sent,
                                         H("run", "put", "OUT", CollapseAndStrip(Head(rx))))
                /\ mon_line_buf' = mon_line_buf]_vars

\* In raw mode the reader has put the chunk "a\r\nb\r" as "a\nb".
C13_RawChunkPut ==
    \E m \in MonIds : \E k \in 1..Len(mon[m].sent) :
        mon[m].sent[k].text = <<"a", LF, "b">>

\* a chunk read in one pass: a CRLF pair and any other carriage return each
\* give one newline
RECURSIVE CollapseToNewlines(_)
CollapseToNewlines(s) ==
    IF s = << >> THEN << >>
    ELSE IF Head(s) = CR /\ Len(s) >= 2 /\ s[2] = LF
         THEN <<LF>> \o CollapseToNewlines(SubSeq(s, 3, Len(s)))
    ELSE IF Head(s) = CR THEN <<LF>> \o CollapseToNewlines(Tail(s))
    ELSE <<Head(s)>> \o CollapseToNewlines(Tail(s))

\* the text of s after its last newline
Remainder(s) ==
    LET nl == {i \in 1..Len(s) : s[i] = LF}
    IN  IF nl = {} THEN s
        ELSE SubSeq(s, (CHOOSE i \in nl : \A j \in nl : j <= i) + 1, Len(s))

\* the line of s that the newline at position p ends
LineEndedAt(s, p) ==
    LET before == {i \in 1..(p - 1) : s[i] = LF}
        start == IF before = {} THEN 1
                 ELSE (CHOOSE i \in before : \A j \in before : j <= i) + 1
    IN  SubSeq(s, start, p - 1)

\* the payloads a left-to-right scan of s enqueues, one per newline: prefix +
\* line + newline, a bare newline for an empty line with text after it, nothing
\* for an empty line that ends s
LinesEnqueued(s) ==
    LET upTo[n \in 0..Len(s)] ==
            IF n = 0 THEN << >>
            ELSE IF s[n] # LF THEN upTo[n - 1]
            ELSE LET line == LineEndedAt(s, n)
                 IN  IF line # << >> THEN Append(upTo[n - 1], TsPrefix \o line \o <<LF>>)
                     ELSE IF n < Len(s) THEN Append(upTo[n - 1], <<LF>>)
                     ELSE upTo[n - 1]
    IN  upTo[Len(s)]

\* C14: in timestamped mode the step that reads a chunk appends the chunk (CRLF
\* collapsed, lone CR turned into newline) to the line buffer, enqueues the
\* complete lines of the buffer in order (prefix + line + newline; a bare
\* newline for an empty line followed by more buffer; nothing for an empty line
\* that ends the buffer) and keeps the incomplete remainder, which no other
\* reader step changes except the flush at stop; "abc\r\ndef\r" from an empty
\* buffer gives the two prefixed lines abc and def.
C14_TimestampedChunk ==
    /\ [](TsLines(TsText(<<"a", "b", "c", CR, LF, "d", "e", "f", CR>>))
              = [lines |-> <<TsPrefix \o <<"a", "b", "c", LF>>, TsPrefix \o <<"d", "e", "f", LF>>>>,
                 buf |-> << >>])
    /\ [][\A m \in MonIds :
            /\ (mon[m].pc = "read" /\ rx # << >> /\ rx' = Tail(rx) /\ var_mon_timestamp) =>
                 LET full == mon_line_buf \o CollapseToNewlines(Head(rx))
                 IN  /\ mon'[m].sent = mon[m].sent \o HLines("run", "put", "OUT", LinesEnqueued(full))
                     /\ mon_line_buf' = Remainder(full)
            /\ (MonAlive(m) /\ mon'[m] # mon[m] /\ mon_line_buf' # mon_line_buf /\ rx' = rx) =>
                 /\ mon[m].pc = "finally" /\ var_mon_timestamp
                 /\ mon'[m].sent = Append(mon[m].sent, H("run", "flush", "OUT", TsPrefix \o mon_line_buf))
                 /\ mon_line_buf' = << >>]_vars

\* A partial line "x" was buffered, and the next chunk "a\r\nb\r" completed it:
\* the reader has put the prefixed lines xa and b and the buffer is empty.
C14_BufferedLineCompleted ==
    /\ mon_line_buf = << >>
    /\ \E m \in MonIds : \E k \in 1..(Len(mon[m].sent) - 1) :
          /\ mon[m].sent[k].text = TsPrefix \o <<"x", "a", LF>>
          /\ mon[m].sent[k + 1].text = TsPrefix \o <<"b", LF>>

\* dev is COM (in either case) followed by a decimal number
IsComPort(name) ==
    LET dev == Spelling[name]
    IN  /\ Len(dev) >= 4
        /\ dev[1] \in {"C", "c"} /\ dev[2] \in {"O", "o"} /\ dev[3] \in {"M", "m"}
        /\ \A i \in 4..Len(dev) : IsDigit(dev[i])

ComNumber(name) == DecimalValue(SubSeq(Spelling[name], 4, Len(Spelling[name])))

PositionIn(q, x) == CHOOSE i \in 1..Len(q) : q[i] = x

\* C15: the listed ports are the enumerated ports, the COM ports first in
\* ascending order of their number, then every other identifier in the order
\* of the enumeration.
C15_ComPortsFirstByNumber ==
    /\ Len(port_values) = Len(comports)
    /\ Range(port_values) = Range(comports)
    /\ \A i, j \in 1..Len(port_values) : i < j =>
          /\ IsComPort(port_values[i]) /\ IsComPort(port_values[j]) =>
                ComNumber(port_values[i]) <= ComNumber(port_values[j])
          /\ ~IsComPort(port_values[i]) =>
                /\ ~IsComPort(port_values[j])
                /\ PositionIn(comports, port_values[i]) < PositionIn(comports, port_values[j])

\* The enumeration COM10, COM2, COM1, ttyUSB0 is listed as COM1, COM2, COM10,
\* ttyUSB0.
C15_ExampleSorted ==
    /\ comports = <<"COM10", "COM2", "COM1", "ttyUSB0">>
    /\ port_values = <<"COM1", "COM2", "COM10", "ttyUSB0">>

\* neither <dir>/flash_args nor <dir>/build/flash_args is a regular file
NoCandidate ==
    /\ var_path \o <<"flash_args">> \notin Files
    /\ var_path \o <<"build", "flash_args">> \notin Files

\* the folder of the first candidate that is a regular file
CandidateDir ==
    IF var_path \o <<"flash_args">> \in Files THEN var_path ELSE var_path \o <<"build">>

\* C16: flash uses <dir>/flash_args if it is a regular file, else
\* <dir>/build/flash_args if that is one: a Tool Runner started by flash is
\* given the folder of that file, and the tool runs with that folder as the
\* working directory. When neither file exists flash starts no thread: the
\* step that reports the missing file changes nothing but the dialog.
C16_ArgumentFileDiscovery ==
    /\ [](/\ \A i \in ToolIds : ToolAlive(i) =>
                /\ ~NoCandidate
                /\ tr[i].cwd = CandidateDir
                /\ tr[i].argv[Len(tr[i].argv)] = "@flash_args"
                /\ tr[i].pc = "tool" => cwd = CandidateDir
          /\ NoCandidate => worker = 0)
    /\ [][/\ NoCandidate => UNCHANGED <<worker, tr, procVars>>
          /\ msgbox' = "Missing flash_args" =>
                /\ NoCandidate
                /\ UNCHANGED <<worker, tr, monVars, widgetVars, var_status,
                               log_q, procVars>>]_vars

\* Both candidates exist in the selected folder, and the tool runs in the
\* folder itself, not in its build folder.
C16_FirstOfBothUsed ==
    /\ var_path = <<"both">>
    /\ \E i \in ToolIds : tr[i].pc = "tool" /\ cwd = <<"both">>

\* what a tick that finds the single message h pending makes of c
ApplyOne(c, h) ==
    IF h.kind = "DONE" THEN PollDone(c)
    ELSE IF h.kind = "MON_DONE" THEN PollMonDone(c)
    ELSE c

\* the messages of q applied to c one at a time, first in first out
RECURSIVE ApplyFifo(_, _)
ApplyFifo(c, q) == IF q = << >> THEN c ELSE ApplyFifo(ApplyOne(c, Head(q)), Tail(q))

\* C17: a poll tick that empties the queue leaves the widgets, the running flag
\* and the status as applying the pending messages one at a time in queue order
\* would.
C17_BatchEqualsFifo ==
    [][(log_q # << >> /\ log_q' = << >>) => Ctl' = ApplyFifo(Ctl, log_q)]_vars

\* MON_DONE is pending ahead of DONE.
C17_MonDoneBeforeDone ==
    \E j, k \in 1..Len(log_q) : j < k /\ log_q[j].kind = "MON_DONE" /\ log_q[k].kind = "DONE"

\* the reader m has closed the device and put MON_DONE as its last message
ReaderDone(m) ==
    /\ mon[m].pc = "exit"
    /\ mon_ser = "None"
    /\ IsMonDone(mon[m].sent[Len(mon[m].sent)])

\* C18: once a stop is requested while the reader thread is alive, the reader
\* leaves its loop, closes the device and puts MON_DONE; at the top of an
\* iteration a reader that sees the stop event goes to its finally clause
\* without reading.
C18_StopEventuallyEndsReader ==
    /\ \A m \in MonIds : (mon_stop_evt /\ mon_thread = m /\ MonAlive(m)) ~> ReaderDone(m)
    /\ [][\A m \in MonIds :
            (mon[m].pc = "loop" /\ mon_stop_evt /\ mon'[m] # mon[m]) =>
                /\ mon'[m].pc = "finally"
                /\ UNCHANGED <<rx, log_q>>]_vars

\* A reader that opened the port has ended on the stop event, without an error.
C18_StoppedReaderDone ==
    \E m \in MonIds :
        /\ ReaderDone(m)
        /\ mon_stop_evt
        /\ mon[m].sent[1].text = StartBanner
        /\ \A k \in 1..Len(mon[m].sent) : ~IsErr(mon[m].sent[k])

\* a step of a Tool Runner thread or of a monitor reader thread
BackgroundStep ==
    \/ \E i \in ToolIds : ToolAlive(i) /\ tr'[i] # tr[i]
    \/ \E m \in MonIds : MonAlive(m) /\ mon'[m] # mon[m]

\* C19: a step of a background thread leaves the controller's state alone: the
\* selections, the busy and running flags, the monitor's port handle and line
\* buffer, and the widgets; it only appends to the queue.
C19_BackgroundOnlyEnqueues ==
    [][BackgroundStep =>
          /\ UNCHANGED <<selVars, worker, mon_thread, mon_running, mon_stop_evt,
                         mon_ser, mon_line_buf, widgetVars, var_status>>
          /\ Len(log_q') >= Len(log_q)
          /\ SubSeq(log_q', 1, Len(log_q)) = log_q]_vars

\* The reader thread has opened the port: self.mon_ser was assigned from the
\* background thread.
C19_ReaderOpenedPort ==
    \E m \in MonIds : mon[m].pc = "loop" /\ mon_ser = "open"

\* C20: the running flag is set whenever the monitor's reader thread is alive
\* and no stop has been requested.
C20_RunningWhileReaderAlive ==
    (MonThreadAlive /\ ~mon_stop_evt /\ mon[mon_thread].pc \in {"open", "loop", "read"})
        => mon_running

\* A second reader is streaming while the MON_DONE of the first is still in the
\* queue.
C20_StaleMonDonePending ==
    /\ MonThreadAlive /\ ~mon_stop_evt /\ mon_running
    /\ mon[mon_thread].pc \in {"loop", "read"}
    /\ HasKind(log_q, "MON_DONE")

\* the payloads of the OUT messages of hs that carry device text (neither
\* banner), in order
RECURSIVE DevicePayloads(_)
DevicePayloads(hs) ==
    IF hs = << >> THEN << >>
    ELSE (IF Head(hs).kind = "OUT" /\ Head(hs).text \notin {StartBanner, StopBanner}
          THEN <<Head(hs).text>> ELSE << >>)
         \o DevicePayloads(Tail(hs))

\* C21: while a reader streams in timestamped mode, the lines it has put and
\* the remainder it holds are those of the whole text read so far taken as one
\* chunk, however the device split that text into chunks.
C21_ChunkingIndependent ==
    \A m \in MonIds :
        (mon[m].pc \in {"loop", "read"} /\ mon_thread = m) =>
            /\ DevicePayloads(mon[m].sent) = TsLines(TsText(mon[m].got)).lines
            /\ mon_line_buf = TsLines(TsText(mon[m].got)).buf

\* The device sent "a\r\nb\r" and then "\ny", a CRLF pair split across two
\* chunks, and the reader has put a bare newline after the lines a and b.
C21_CrLfSplit ==
    \E m \in MonIds :
        /\ mon[m].pc = "loop" /\ mon_thread = m
        /\ mon[m].got = <<"a", CR, LF, "b", CR, LF, "y">>
        /\ DevicePayloads(mon[m].sent)
              = <<TsPrefix \o <<"a", LF>>, TsPrefix \o <<"b", LF>>, <<LF>>>>
        /\ mon_line_buf = <<"y">>

RECURSIVE Flatten(_)
Flatten(ss) == IF ss = << >> THEN << >> ELSE Head(ss) \o Flatten(Tail(ss))

IsDeviceLetter(c) == c \notin {CR, LF, TsPrefix[1]}

\* the characters of s that the device sent and that are not line ends
DeviceLetters(s) == SelectSeq(s, IsDeviceLetter)

\* C22: when a reader run has ended, the characters of the OUT payloads it put,
\* line ends and time stamps aside, are the characters it read from the
\* device, in the order of arrival, whatever the Timestamp check button did in
\* between.
C22_NoTextLostOrReordered ==
    \A m \in MonIds :
        mon[m].pc = "exit" =>
            DeviceLetters(Flatten(DevicePayloads(mon[m].sent))) = DeviceLetters(mon[m].got)

\* A reader run has ended in raw mode after it read "x" in timestamped mode,
\* and has put no payload with the x.
C22_PartialLineDropped ==
    \E m \in MonIds :
        /\ mon[m].pc = "exit"
        /\ ~var_mon_timestamp
        /\ mon[m].got = <<"x">>
        /\ DevicePayloads(mon[m].sent) = << >>
        /\ mon_line_buf = <<"x">>

====
